---- MODULE Spec2Model ----
(***************************************************************************)
(* The socket_bind LSM hook of guardity-ebpf (src/guardity-ebpf/src/       *)
(* socket_bind.rs): the decision it takes for one bind attempt from the    *)
(* ALLOWED_SOCKET_BIND and DENIED_SOCKET_BIND maps, the alert it outputs   *)
(* on a denial, and the user-space administrator that updates the maps     *)
(* while hooks run on several CPUs.                                        *)
(*                                                                         *)
(* Array positions are 1-based here: index i of the source is position     *)
(* i + 1 of a TLA+ sequence, and the slice ports[..len] is positions       *)
(* 1..len.                                                                 *)
(***************************************************************************)
EXTENDS Integers, Sequences, FiniteSets

(***************************************************************************)
(* Constants of the program and the inputs the model draws.                *)
(***************************************************************************)

\* consts::AF_INET, the address family of an IPv4 sockaddr.
AF_INET == 2

\* consts::INODE_WILDCARD, the key of the rule that applies to every binary.
INODE_WILDCARD == 0

\* guardity_common::MAX_PORTS, the number of port slots the hook scans.
MAX_PORTS == 32

\* Number of port slots a stored rule carries.  It exceeds MAX_PORTS so that
\* a rule can hold a port at index 35, which the hook must never read.
PortsCap == 36

\* Address families of the bind attempts: IPv4 and one other (AF_INET6).
Families == {AF_INET, 10}

\* Inodes of the binaries that call bind().
Subjects == {1, 2}

\* Keys of the two maps.
Keys == {INODE_WILDCARD} \cup Subjects

\* Ports, in host byte order, that the bind attempts ask for.
Ports == {22, 80}

\* The CPUs the hook runs on, and the pid of the task current on each.
Cpus == {"cpu0", "cpu1"}

PidOf(c) == IF c = "cpu0" THEN 4100 ELSE 4200

\* The two maps.
Tables == {"ALLOWED", "DENIED"}

(***************************************************************************)
(* Byte order.  sin_port is in network byte order; the hook runs on a      *)
(* little-endian target, where u16::from_be swaps the two bytes.           *)
(***************************************************************************)

from_be(x) == (x % 256) * 256 + (x \div 256)

\* htons, what the caller of bind() applied to the port it asks for.
to_be(p) == (p % 256) * 256 + (p \div 256)

SinPorts == {to_be(p) : p \in Ports}

(***************************************************************************)
(* Rules: the values of the maps.                                          *)
(***************************************************************************)

\* A port array holding port q1 at index i1 and q2 at index i2, 0 elsewhere.
PortArray(i1, q1, i2, q2) ==
    [i \in 1..PortsCap |-> IF i = i1 + 1 THEN q1 ELSE IF i = i2 + 1 THEN q2 ELSE 0]

\* all ports.
RuleAll == [all |-> TRUE, len |-> 0, ports |-> PortArray(0, 80, 1, 0)]

\* len = 1: port 22 is listed, port 80 sits past len at index 1.
Rule22 == [all |-> FALSE, len |-> 1, ports |-> PortArray(0, 22, 1, 80)]

\* len = 40 > MAX_PORTS: port 80 sits in the last slot scanned (index 31),
\* port 22 at index 35.
RuleEdge == [all |-> FALSE, len |-> 40, ports |-> PortArray(MAX_PORTS - 1, 80, 35, 22)]

\* The rules the administrator installs.
Rules == {RuleAll, Rule22, RuleEdge}

\* The rules the administrator installs, the keys it installs them at and
\* the binary that calls bind() while hooks race with it.
RaceRules == {RuleAll, Rule22}

RaceSubjects == {1}

RaceKeys == {INODE_WILDCARD} \cup RaceSubjects

\* Option<&Ports>: None is the empty sequence, Some(r) is <<r>>.
None == << >>

Some(r) == <<r>>

VARIABLES
    Allowed,    \* ALLOWED_SOCKET_BIND: key -> Option rule
    Denied,     \* DENIED_SOCKET_BIND: key -> Option rule
    ev          \* per CPU: the hook invocation running there

vars == <<Allowed, Denied, ev>>

(***************************************************************************)
(* One hook invocation.                                                    *)
(*   pc       "idle", the lookup it is about to make ("l46" ... "l107"),   *)
(*            or "done"                                                    *)
(*   family, sin_port, inode, pid   the context of the bind attempt        *)
(*   port, binprm_inode             the locals of lines 42 and 44          *)
(*   ret, retline                   the value returned and the line of     *)
(*                                  the return statement                   *)
(*   alerts                         what it output to ALERT_SOCKET_BIND    *)
(*   lookups                        the map reads it made, in order        *)
(*   mod                            history: user space changed a map      *)
(*                                  while the invocation was in flight     *)
(*   wmod                           history: user space changed a wildcard *)
(*                                  entry after the invocation read it in  *)
(*                                  phase 1 and before it read it again    *)
(*                                  in phase 2                             *)
(***************************************************************************)
Idle ==
    [pc |-> "idle", family |-> 0, sin_port |-> 0, inode |-> 0, pid |-> 0,
     port |-> 0, binprm_inode |-> 0, ret |-> 0, retline |-> 0,
     alerts |-> << >>, lookups |-> << >>, mod |-> FALSE, wmod |-> FALSE]

\* AlertSocketBind::new(pid, binprm_inode, port)
AlertSocketBind(pid, binprm_inode, port) ==
    [pid |-> pid, binprm_inode |-> binprm_inode, port |-> port]

\* map.get(&key)
Get(map, key) == map[key]

\* cmp::min
Min(a, b) == IF a <= b THEN a ELSE b

\* ports[..len].contains(&port)
Contains(ports, len, port) == \E i \in 1..len : ports[i] = port

\* Mutant of ListMatch: the scan runs to the declared length, past MAX_PORTS.
ListMatchNoCap(rule, port) == Contains(rule.ports, Min(rule.len, PortsCap), port)

\* let len = cmp::min(ports.len, MAX_PORTS); ports.ports[..len].contains(&port)
ListMatch(rule, port) == Contains(rule.ports, Min(rule.len, MAX_PORTS), port)

\* return Ok(0)
ReturnAllow(st, line) ==
    [st EXCEPT !.pc = "done", !.ret = 0, !.retline = line]

\* Mutant of ReturnDeny: the denial is returned and no alert is output.
ReturnDenySilent(st, line) ==
    [st EXCEPT !.pc = "done", !.ret = -1, !.retline = line]

\* ALERT_SOCKET_BIND.output(&ctx, &AlertSocketBind::new(..), 0); return Ok(-1)
ReturnDeny(st, line) ==
    [st EXCEPT !.pc = "done", !.ret = -1, !.retline = line,
               !.alerts = Append(@, AlertSocketBind(st.pid, st.binprm_inode, st.port))]

\* The invocation moves on to its next map read.
Goto(st, label) == [st EXCEPT !.pc = label]

\* The invocation has read `table` at `key`.
Read(st, table, key) == [st EXCEPT !.lookups = Append(@, <<table, key>>)]

(***************************************************************************)
(* socket_bind, cut at its map reads.  Each operator below is one read     *)
(* together with the tests and the return statements that follow it, up    *)
(* to the next read.                                                       *)
(***************************************************************************)

\* Mutant of Entry: the address family is not tested.
EntryAnyFamily(c, family, sin_port, inode) ==
    [Idle EXCEPT !.pc = "l46", !.family = family, !.sin_port = sin_port,
                 !.inode = inode, !.pid = PidOf(c),
                 !.port = from_be(sin_port), !.binprm_inode = inode]

\* Lines 35-44: the address family test, the port and the binary's inode.
Entry(c, family, sin_port, inode) ==
    LET st == [Idle EXCEPT !.family = family, !.sin_port = sin_port,
                           !.inode = inode, !.pid = PidOf(c)]
    IN  IF family # AF_INET
        THEN ReturnAllow(st, 38)
        ELSE [st EXCEPT !.pc = "l46", !.port = from_be(sin_port),
                        !.binprm_inode = inode]

\* Mutant of L46: without a wildcard allow-all the per-binary deny rule is
\* consulted all the same.
L46Ungated(A, D, st) ==
    LET ports == Get(A, INODE_WILDCARD)
        s     == Read(st, "ALLOWED", INODE_WILDCARD)
    IN  IF ports # None
        THEN IF ports[1].all
             THEN Goto(s, "l48")
             ELSE IF ListMatch(ports[1], st.port)
                  THEN ReturnAllow(s, 90)
                  ELSE Goto(s, "l68")
        ELSE Goto(s, "l68")

\* Mutant of L46: a match in the wildcard allow list does not return.
L46NoShortCircuit(A, D, st) ==
    LET ports == Get(A, INODE_WILDCARD)
        s     == Read(st, "ALLOWED", INODE_WILDCARD)
    IN  IF ports # None /\ ports[1].all
        THEN Goto(s, "l48")
        ELSE Goto(s, "l95")

\* Lines 46-47 and 87-93: ALLOWED_SOCKET_BIND.get(&INODE_WILDCARD).
L46(A, D, st) ==
    LET ports == Get(A, INODE_WILDCARD)
        s     == Read(st, "ALLOWED", INODE_WILDCARD)
    IN  IF ports # None
        THEN IF ports[1].all
             THEN Goto(s, "l48")
             ELSE IF ListMatch(ports[1], st.port)
                  THEN ReturnAllow(s, 90)
                  ELSE Goto(s, "l95")
        ELSE Goto(s, "l95")

\* Mutant of L48: the all flag of the wildcard deny rule is not tested.
L48ListOnly(A, D, st) ==
    LET ports == Get(D, INODE_WILDCARD)
        s     == Read(st, "DENIED", INODE_WILDCARD)
    IN  IF ports # None /\ ListMatch(ports[1], st.port)
        THEN ReturnDeny(s, 64)
        ELSE Goto(s, "l68")

\* Lines 48-66: DENIED_SOCKET_BIND.get(&INODE_WILDCARD) under allow-all.
L48(A, D, st) ==
    LET ports == Get(D, INODE_WILDCARD)
        s     == Read(st, "DENIED", INODE_WILDCARD)
    IN  IF ports # None
        THEN IF ports[1].all
             THEN ReturnDeny(s, 55)
             ELSE IF ListMatch(ports[1], st.port)
                  THEN ReturnDeny(s, 64)
                  ELSE Goto(s, "l68")
        ELSE Goto(s, "l68")

\* Mutant of L68: the per-binary deny rule is not consulted.
L68Skipped(A, D, st) == Goto(st, "l95")

\* Lines 68-86: DENIED_SOCKET_BIND.get(&binprm_inode) under allow-all.
L68(A, D, st) ==
    LET ports == Get(D, st.binprm_inode)
        s     == Read(st, "DENIED", st.binprm_inode)
    IN  IF ports # None
        THEN IF ports[1].all
             THEN ReturnDeny(s, 75)
             ELSE IF ListMatch(ports[1], st.port)
                  THEN ReturnDeny(s, 84)
                  ELSE Goto(s, "l95")
        ELSE Goto(s, "l95")

\* Mutant of L95: without a wildcard deny rule the bind is denied.
L95DefaultDeny(A, D, st) ==
    LET ports == Get(D, INODE_WILDCARD)
        s     == Read(st, "DENIED", INODE_WILDCARD)
    IN  IF ports # None
        THEN IF ports[1].all
             THEN Goto(s, "l97")
             ELSE IF ListMatch(ports[1], st.port)
                  THEN ReturnDeny(s, 131)
                  ELSE ReturnAllow(s, 136)
        ELSE ReturnDeny(s, 136)

\* Lines 95-96 and 123-136: DENIED_SOCKET_BIND.get(&INODE_WILDCARD).
L95(A, D, st) ==
    LET ports == Get(D, INODE_WILDCARD)
        s     == Read(st, "DENIED", INODE_WILDCARD)
    IN  IF ports # None
        THEN IF ports[1].all
             THEN Goto(s, "l97")
             ELSE IF ListMatch(ports[1], st.port)
                  THEN ReturnDeny(s, 131)
                  ELSE ReturnAllow(s, 136)
        ELSE ReturnAllow(s, 136)

\* Mutant of L97: without a wildcard allow rule the hook reads the wildcard
\* deny rule again, until one appears.
L97Retry(A, D, st) ==
    LET ports == Get(A, INODE_WILDCARD)
        s     == Read(st, "ALLOWED", INODE_WILDCARD)
    IN  IF ports # None
        THEN IF ports[1].all
             THEN ReturnAllow(s, 99)
             ELSE IF ListMatch(ports[1], st.port)
                  THEN ReturnAllow(s, 103)
                  ELSE Goto(s, "l107")
        ELSE Goto(s, "l95")

\* Lines 97-105: ALLOWED_SOCKET_BIND.get(&INODE_WILDCARD) under deny-all.
L97(A, D, st) ==
    LET ports == Get(A, INODE_WILDCARD)
        s     == Read(st, "ALLOWED", INODE_WILDCARD)
    IN  IF ports # None
        THEN IF ports[1].all
             THEN ReturnAllow(s, 99)
             ELSE IF ListMatch(ports[1], st.port)
                  THEN ReturnAllow(s, 103)
                  ELSE Goto(s, "l107")
        ELSE Goto(s, "l107")

\* Mutant of L107: the all flag of the per-binary allow rule is not tested.
L107ListOnly(A, D, st) ==
    LET ports == Get(A, st.binprm_inode)
        s     == Read(st, "ALLOWED", st.binprm_inode)
    IN  IF ports # None /\ ListMatch(ports[1], st.port)
        THEN ReturnAllow(s, 113)
        ELSE ReturnDeny(s, 122)

\* Lines 107-122: ALLOWED_SOCKET_BIND.get(&binprm_inode) under deny-all.
L107(A, D, st) ==
    LET ports == Get(A, st.binprm_inode)
        s     == Read(st, "ALLOWED", st.binprm_inode)
    IN  IF ports # None
        THEN IF ports[1].all
             THEN ReturnAllow(s, 109)
             ELSE IF ListMatch(ports[1], st.port)
                  THEN ReturnAllow(s, 113)
                  ELSE ReturnDeny(s, 122)
        ELSE ReturnDeny(s, 122)

LookupPcs == {"l46", "l48", "l68", "l95", "l97", "l107"}

\* The next map read of an invocation in flight, against maps A and D.
Step(A, D, st) ==
    CASE st.pc = "l46"  -> L46(A, D, st)
      [] st.pc = "l48"  -> L48(A, D, st)
      [] st.pc = "l68"  -> L68(A, D, st)
      [] st.pc = "l95"  -> L95(A, D, st)
      [] st.pc = "l97"  -> L97(A, D, st)
      [] st.pc = "l107" -> L107(A, D, st)

\* The body of socket_bind from line 46 to its return, against maps that
\* do not change meanwhile.
RECURSIVE Run(_, _, _)
Run(A, D, st) == IF st.pc \in LookupPcs THEN Run(A, D, Step(A, D, st)) ELSE st

\* socket_bind(ctx) against maps that do not change meanwhile.
socket_bind(A, D, c, family, sin_port, inode) ==
    Run(A, D, Entry(c, family, sin_port, inode))

(***************************************************************************)
(* Actions.                                                                *)
(***************************************************************************)

Init ==
    /\ Allowed = [k \in Keys |-> None]
    /\ Denied = [k \in Keys |-> None]
    /\ ev = [c \in Cpus |-> Idle]

\* No hook invocation is running or waiting for its result to be used.
Quiescent == \A c \in Cpus : ev[c].pc = "idle"

\* A wildcard entry of `table` changes under invocation st after st read it
\* in phase 1 and before st reads it again in phase 2.
Races(st, table, key) ==
    /\ key = INODE_WILDCARD
    /\ \/ table = "ALLOWED" /\ st.pc \in {"l48", "l68", "l95", "l97"}
       \/ /\ table = "DENIED"
          /\ st.pc \in {"l68", "l95"}
          /\ \E i \in 1..Len(st.lookups) : st.lookups[i] = <<"DENIED", INODE_WILDCARD>>

\* What a change of map[key] leaves in the history of the invocations.
Touch(table, key) ==
    [c \in Cpus |-> IF ev[c].pc \in LookupPcs
                    THEN [ev[c] EXCEPT !.mod = TRUE,
                                       !.wmod = @ \/ Races(ev[c], table, key)]
                    ELSE ev[c]]

\* User space sets map[key] to rule.
Insert(table, key, rule) ==
    /\ IF table = "ALLOWED"
       THEN /\ Get(Allowed, key) # Some(rule)
            /\ Allowed' = [Allowed EXCEPT ![key] = Some(rule)]
            /\ UNCHANGED Denied
       ELSE /\ Get(Denied, key) # Some(rule)
            /\ Denied' = [Denied EXCEPT ![key] = Some(rule)]
            /\ UNCHANGED Allowed
    /\ ev' = Touch(table, key)

\* User space removes map[key].
Remove(table, key) ==
    /\ IF table = "ALLOWED"
       THEN /\ Get(Allowed, key) # None
            /\ Allowed' = [Allowed EXCEPT ![key] = None]
            /\ UNCHANGED Denied
       ELSE /\ Get(Denied, key) # None
            /\ Denied' = [Denied EXCEPT ![key] = None]
            /\ UNCHANGED Allowed
    /\ ev' = Touch(table, key)

\* The whole hook, run on CPU c against the maps as they are.
Bind(c, family, sin_port, inode) ==
    /\ ev[c].pc = "idle"
    /\ ev' = [ev EXCEPT ![c] = socket_bind(Allowed, Denied, c, family, sin_port, inode)]
    /\ UNCHANGED <<Allowed, Denied>>

\* The hook is entered on CPU c: lines 35-44.
Enter(c, family, sin_port, inode) ==
    /\ ev[c].pc = "idle"
    /\ ev' = [ev EXCEPT ![c] = Entry(c, family, sin_port, inode)]
    /\ UNCHANGED <<Allowed, Denied>>

\* The invocation on CPU c makes its next map read.
Lookup(c) ==
    /\ ev[c].pc \in LookupPcs
    /\ ev' = [ev EXCEPT ![c] = Step(Allowed, Denied, ev[c])]
    /\ UNCHANGED <<Allowed, Denied>>

\* The LSM framework has used the result; CPU c is free for the next bind.
Exit(c) ==
    /\ ev[c].pc = "done"
    /\ ev' = [ev EXCEPT ![c] = Idle]
    /\ UNCHANGED <<Allowed, Denied>>

\* User space changes a map while no hook runs.
InsertBetween(table, key, rule) == Quiescent /\ Insert(table, key, rule)

RemoveBetween(table, key) == Quiescent /\ Remove(table, key)

\* Hooks run against a rule snapshot: the maps change only between them.
Next ==
    \/ \E t \in Tables, k \in Keys, r \in Rules : InsertBetween(t, k, r)
    \/ \E t \in Tables, k \in Keys : RemoveBetween(t, k)
    \/ \E c \in Cpus, f \in Families, sp \in SinPorts, s \in Subjects : Bind(c, f, sp, s)
    \/ \E c \in Cpus : Exit(c)

Spec == Init /\ [][Next]_vars

\* Hooks race with the administrator: the maps change between any two reads.
RaceNext ==
    \/ \E t \in Tables, k \in RaceKeys, r \in RaceRules : Insert(t, k, r)
    \/ \E t \in Tables, k \in RaceKeys : Remove(t, k)
    \/ \E c \in Cpus, f \in Families, sp \in SinPorts, s \in RaceSubjects : Enter(c, f, sp, s)
    \/ \E c \in Cpus : Lookup(c)
    \/ \E c \in Cpus : Exit(c)

SpecRace == Init /\ [][RaceNext]_vars

(***************************************************************************)
(* Vocabulary of the claims.                                               *)
(***************************************************************************)

\* The invocation on CPU c has returned from an IPv4 bind attempt.
Decided(c) == ev[c].pc = "done" /\ ev[c].family = AF_INET

\* ntohs(sin_port): the port the bind attempt on CPU c asks for.
ReqPort(c) == CHOOSE p \in Ports : to_be(p) = ev[c].sin_port

\* The binary that makes the bind attempt on CPU c.
Subject(c) == ev[c].inode

\* The one alert a denial on CPU c has to output.
AlertOf(c) == [pid |-> PidOf(c), binprm_inode |-> Subject(c), port |-> ReqPort(c)]

Allows(c) == ev[c].ret = 0 /\ ev[c].alerts = << >>

Denies(c) == ev[c].ret = -1 /\ ev[c].alerts = <<AlertOf(c)>>

\* The entry is present with all = true / present with all = false.
IsAll(entry) == entry # None /\ entry[1].all

IsList(entry) == entry # None /\ ~entry[1].all

\* Port p is among the first min(len, MAX_PORTS) ports of the rule.
InList(rule, p) ==
    \E i \in 0..(MAX_PORTS - 1) : i < rule.len /\ rule.ports[i + 1] = p

\* RuleMatcher: the entry is present and its rule covers port p.
Covers(entry, p) == entry # None /\ (entry[1].all \/ InList(entry[1], p))

\* The invocation on CPU c read the DENIED map.
ReadDenied(c) ==
    \E i \in 1..Len(ev[c].lookups) : ev[c].lookups[i][1] = "DENIED"

\* What the hook would return on CPU c for the same bind attempt against
\* the maps A and D.
Again(A, D, c) ==
    socket_bind(A, D, c, ev[c].family, ev[c].sin_port, ev[c].inode)

(***************************************************************************)
(* C1.  Every evaluation returns 0 (Allow) or -1 (Deny); a Deny outputs    *)
(* exactly one alert, which carries the pid, the binary and the port of    *)
(* that bind attempt, and an Allow outputs none.  With a wildcard deny-all *)
(* and no allow rule at all, every IPv4 bind is denied.                    *)
(***************************************************************************)
C1_AlertIffDeny ==
    \A c \in Cpus :
        ev[c].pc = "done" =>
            /\ Allows(c) \/ Denies(c)
            /\ ( /\ ev[c].family = AF_INET
                 /\ IsAll(Denied[INODE_WILDCARD])
                 /\ \A k \in Keys : Allowed[k] = None ) => Denies(c)

C1_Witness ==
    \E c \in Cpus :
        /\ Decided(c)
        /\ Denied[INODE_WILDCARD] = Some(RuleAll)
        /\ \A k \in Keys : Allowed[k] = None
        /\ ev[c].ret = -1
        /\ ev[c].alerts = <<[pid |-> PidOf(c), binprm_inode |-> 2, port |-> 80]>>

(***************************************************************************)
(* C2.  Default-allow: when DENIED has no wildcard entry and ALLOWED has   *)
(* no wildcard entry or one with all = false, every IPv4 bind is allowed   *)
(* without an alert, whatever the per-binary entries are.                  *)
(***************************************************************************)
C2_DefaultAllow ==
    \A c \in Cpus :
        ( /\ Decided(c)
          /\ Denied[INODE_WILDCARD] = None
          /\ ~IsAll(Allowed[INODE_WILDCARD]) ) => Allows(c)

C2_Witness ==
    \E c \in Cpus :
        /\ Decided(c)
        /\ Denied[INODE_WILDCARD] = None
        /\ IsList(Allowed[INODE_WILDCARD])
        /\ ~Covers(Allowed[INODE_WILDCARD], ReqPort(c))
        /\ IsAll(Denied[Subject(c)])
        /\ Allows(c)

(***************************************************************************)
(* C3.  As claimed: under a wildcard deny-all, a binary whose own allow    *)
(* rule has all = true is allowed on every port whatever the other entries *)
(* are, and a binary with no allow rule of its own and no wildcard allow   *)
(* rule covering the port is denied with one alert.                        *)
(***************************************************************************)
C3_Original ==
    \A c \in Cpus :
        /\ ( /\ Decided(c)
             /\ IsAll(Denied[INODE_WILDCARD])
             /\ IsAll(Allowed[Subject(c)]) ) => Allows(c)
        /\ ( /\ Decided(c)
             /\ IsAll(Denied[INODE_WILDCARD])
             /\ Allowed[Subject(c)] = None
             /\ ~Covers(Allowed[INODE_WILDCARD], ReqPort(c)) ) => Denies(c)

(***************************************************************************)
(* C3, amended.  The exception needs ALLOWED to hold no wildcard allow-all *)
(* (with one, the wildcard deny-all wins at line 55): under a wildcard     *)
(* deny-all and no wildcard allow-all, a binary whose own allow rule has   *)
(* all = true is allowed on every port, and a binary with no allow rule of *)
(* its own and no wildcard allow rule covering the port is denied with one *)
(* alert.                                                                  *)
(***************************************************************************)
C3_DenyAllException ==
    \A c \in Cpus :
        /\ ( /\ Decided(c)
             /\ IsAll(Denied[INODE_WILDCARD])
             /\ ~IsAll(Allowed[INODE_WILDCARD])
             /\ IsAll(Allowed[Subject(c)]) ) => Allows(c)
        /\ ( /\ Decided(c)
             /\ IsAll(Denied[INODE_WILDCARD])
             /\ Allowed[Subject(c)] = None
             /\ ~Covers(Allowed[INODE_WILDCARD], ReqPort(c)) ) => Denies(c)

\* One snapshot, two binaries: the one with the exception is allowed, the
\* other is denied.
C3_Witness ==
    \E c, d \in Cpus :
        /\ Decided(c) /\ Decided(d)
        /\ IsAll(Denied[INODE_WILDCARD])
        /\ ~IsAll(Allowed[INODE_WILDCARD])
        /\ IsAll(Allowed[Subject(c)]) /\ Allows(c)
        /\ Subject(d) # Subject(c)
        /\ Allowed[Subject(d)] = None /\ Denies(d)

(***************************************************************************)
(* C4.  Under a wildcard allow-all, a bind is denied (with its alert)      *)
(* exactly when the wildcard deny rule or the binary's own deny rule       *)
(* covers the port, and allowed otherwise.  With DENIED[wildcard] listing  *)
(* port 22 only, port 22 is denied and port 80 is allowed for a binary     *)
(* without a deny rule of its own.                                         *)
(***************************************************************************)
C4_AllowAllOverridden ==
    \A c \in Cpus :
        (Decided(c) /\ IsAll(Allowed[INODE_WILDCARD])) =>
            /\ IF \/ Covers(Denied[INODE_WILDCARD], ReqPort(c))
                  \/ Covers(Denied[Subject(c)], ReqPort(c))
               THEN Denies(c)
               ELSE Allows(c)
            /\ (Denied[INODE_WILDCARD] = Some(Rule22) /\ Denied[Subject(c)] = None) =>
                   /\ ReqPort(c) = 22 => Denies(c)
                   /\ ReqPort(c) = 80 => Allows(c)

\* One snapshot: port 22 is denied by the wildcard list, port 80 is allowed.
C4_Witness ==
    \E c, d \in Cpus :
        /\ Decided(c) /\ Decided(d)
        /\ IsAll(Allowed[INODE_WILDCARD])
        /\ Denied[INODE_WILDCARD] = Some(Rule22)
        /\ \A k \in Subjects : Denied[k] = None
        /\ ReqPort(c) = 22 /\ Denies(c)
        /\ ReqPort(d) = 80 /\ Allows(d)

(***************************************************************************)
(* C5.  Per-binary rules are gated by the opposite wildcard posture.       *)
(* Without a wildcard allow-all, replacing DENIED[S] by any other entry    *)
(* (or none) leaves the return value and the alerts of S's bind as they    *)
(* are, so a lone DENIED[S] with all = true allows; without a wildcard     *)
(* deny-all, replacing ALLOWED[S] leaves the return value as it is.        *)
(***************************************************************************)
Entries == {None} \cup {Some(r) : r \in Rules}

C5_PerSubjectGated ==
    \A c \in Cpus :
        Decided(c) =>
            /\ ~IsAll(Allowed[INODE_WILDCARD]) =>
                   \A e \in Entries :
                       LET r == Again(Allowed, [Denied EXCEPT ![Subject(c)] = e], c)
                       IN  r.ret = ev[c].ret /\ r.alerts = ev[c].alerts
            /\ ~IsAll(Denied[INODE_WILDCARD]) =>
                   \A e \in Entries :
                       Again([Allowed EXCEPT ![Subject(c)] = e], Denied, c).ret = ev[c].ret
            /\ ( /\ IsAll(Denied[Subject(c)])
                 /\ \A k \in Keys : Allowed[k] = None
                 /\ \A k \in Keys \ {Subject(c)} : Denied[k] = None ) => Allows(c)

\* The lone per-binary deny-all, which has no effect.
C5_Witness ==
    \E c \in Cpus :
        /\ Decided(c)
        /\ Denied[Subject(c)] = Some(RuleAll)
        /\ \A k \in Keys : Allowed[k] = None
        /\ \A k \in Keys \ {Subject(c)} : Denied[k] = None
        /\ Allows(c)

(***************************************************************************)
(* C6.  Port-list bound.  The return value is the one of the precedence    *)
(* algorithm in which, at each of the six rule checks, a rule with         *)
(* all = false covers port p exactly when p is among the first             *)
(* min(len, MAX_PORTS) entries of its list and a rule with all = true      *)
(* covers every port.  Overwriting every entry at an index >= len or       *)
(* >= MAX_PORTS of every rule with the requested port, or giving a rule    *)
(* with all = true any other len and list, leaves the return value as it   *)
(* is.  The slice the hook scans lies within the stored array.             *)
(***************************************************************************)
\* The precedence algorithm, in terms of Covers.
Verdict(A, D, s, p) ==
    LET aw == A[INODE_WILDCARD]
        dw == D[INODE_WILDCARD]
    IN  IF IsAll(aw) /\ (Covers(dw, p) \/ Covers(D[s], p))       THEN -1
        ELSE IF IsList(aw) /\ Covers(aw, p)                      THEN 0
        ELSE IF IsAll(dw) /\ ~(Covers(aw, p) \/ Covers(A[s], p)) THEN -1
        ELSE IF IsList(dw) /\ Covers(dw, p)                      THEN -1
        ELSE 0

\* The entry with every port slot the hook must not read set to q.
Scrub(entry, q) ==
    IF entry = None
    THEN None
    ELSE Some([entry[1] EXCEPT !.ports =
                  [i \in 1..PortsCap |->
                      IF i > entry[1].len \/ i > MAX_PORTS THEN q ELSE entry[1].ports[i]]])

\* The entry, when all = true, with len n and an empty list.
Relist(entry, n) ==
    IF IsAll(entry)
    THEN Some([all |-> TRUE, len |-> n, ports |-> [i \in 1..PortsCap |-> 0]])
    ELSE entry

C6_PortListBound ==
    \A c \in Cpus :
        Decided(c) =>
            /\ ev[c].ret = Verdict(Allowed, Denied, Subject(c), ReqPort(c))
            /\ Again([k \in Keys |-> Scrub(Allowed[k], ReqPort(c))],
                     [k \in Keys |-> Scrub(Denied[k], ReqPort(c))], c).ret = ev[c].ret
            /\ \A n \in {1, MAX_PORTS, PortsCap + 4} :
                   Again([k \in Keys |-> Relist(Allowed[k], n)],
                         [k \in Keys |-> Relist(Denied[k], n)], c).ret = ev[c].ret
            /\ \A k \in Keys :
                   /\ Allowed[k] # None =>
                          Min(Allowed[k][1].len, MAX_PORTS) <= Len(Allowed[k][1].ports)
                   /\ Denied[k] # None =>
                          Min(Denied[k][1].len, MAX_PORTS) <= Len(Denied[k][1].ports)

\* The wildcard deny rule has len = 40 and holds port 22 at index 35 only:
\* a bind to port 22 is allowed, one to port 80 (index 31) is denied.
C6_Witness ==
    \E c, d \in Cpus :
        /\ Decided(c) /\ Decided(d)
        /\ Denied[INODE_WILDCARD] = Some(RuleEdge)
        /\ Allowed[INODE_WILDCARD] = None
        /\ ReqPort(c) = 22 /\ Allows(c)
        /\ ReqPort(d) = 80 /\ Denies(d)

(***************************************************************************)
(* C7.  A bind whose address family is not AF_INET returns 0 with no alert *)
(* and no map read, whatever the maps hold.                                *)
(***************************************************************************)
C7_NonIPv4Bypass ==
    \A c \in Cpus :
        (ev[c].pc = "done" /\ ev[c].family # AF_INET) =>
            /\ ev[c].ret = 0
            /\ ev[c].alerts = << >>
            /\ ev[c].lookups = << >>

C7_Witness ==
    \E c \in Cpus :
        /\ ev[c].pc = "done" /\ ev[c].family # AF_INET
        /\ IsAll(Denied[INODE_WILDCARD])
        /\ \A k \in Keys : Allowed[k] = None
        /\ ev[c].ret = 0 /\ ev[c].lookups = << >>

(***************************************************************************)
(* C9.  Wildcard allow-list short-circuit.  When ALLOWED[wildcard] has     *)
(* all = false and lists the port, the bind is allowed with no alert and   *)
(* the DENIED map is not read.  When it has all = false and does not list  *)
(* the port, the return value and the alerts are those of phase 2 (line    *)
(* 95 onwards) alone.                                                      *)
(***************************************************************************)
\* Phase 2 alone, for the bind attempt on CPU c.
Phase2(c) ==
    Run(Allowed, Denied,
        Goto(Entry(c, ev[c].family, ev[c].sin_port, ev[c].inode), "l95"))

C9_WildcardAllowList ==
    \A c \in Cpus :
        (Decided(c) /\ IsList(Allowed[INODE_WILDCARD])) =>
            IF InList(Allowed[INODE_WILDCARD][1], ReqPort(c))
            THEN Allows(c) /\ ~ReadDenied(c)
            ELSE /\ ev[c].ret = Phase2(c).ret
                 /\ ev[c].alerts = Phase2(c).alerts

\* The allow list wins over a wildcard deny-all and the binary's deny-all.
C9_Witness ==
    \E c \in Cpus :
        /\ Decided(c)
        /\ IsList(Allowed[INODE_WILDCARD])
        /\ InList(Allowed[INODE_WILDCARD][1], ReqPort(c))
        /\ IsAll(Denied[INODE_WILDCARD])
        /\ IsAll(Denied[Subject(c)])
        /\ Allows(c) /\ ev[c].retline = 90

(***************************************************************************)
(* C8.  Races with the administrator are not fatal.  While user space      *)
(* changes the maps between the reads of an invocation:                    *)
(*  - an invocation that returned has made at most six reads and returned  *)
(*    0 with no alert or -1 with its one alert;                            *)
(*  - an invocation in flight can always make its next read (it waits for  *)
(*    nothing), and each read takes it strictly further down the function, *)
(*    so it returns within six reads;                                      *)
(*  - a step of a hook changes neither map;                                *)
(*  - a step changes the state of one invocation only, and the other       *)
(*    CPU's invocation keeps its reads, its return value and its alerts.   *)
(***************************************************************************)
\* An invocation without its history.
Core(st) == [st EXCEPT !.mod = FALSE, !.wmod = FALSE]

\* How far down socket_bind an invocation is.
Rank(pc) ==
    CASE pc = "idle" -> 0
      [] pc = "l46"  -> 1
      [] pc = "l48"  -> 2
      [] pc = "l68"  -> 3
      [] pc = "l95"  -> 4
      [] pc = "l97"  -> 5
      [] pc = "l107" -> 6
      [] pc = "done" -> 7

C8_Returned ==
    \A c \in Cpus :
        /\ ev[c].pc = "done" =>
               /\ Allows(c) \/ Denies(c)
               /\ Len(ev[c].lookups) <= 6
        /\ ev[c].pc \in LookupPcs => ENABLED Lookup(c)

C8_Step ==
    /\ \A c \in Cpus :
           (ev[c].pc \in LookupPcs /\ Core(ev'[c]) # Core(ev[c])) =>
               /\ Rank(ev'[c].pc) > Rank(ev[c].pc)
               /\ Len(ev'[c].lookups) = Len(ev[c].lookups) + 1
    /\ (\E c \in Cpus : Core(ev'[c]) # Core(ev[c])) => UNCHANGED <<Allowed, Denied>>
    /\ \A c, d \in Cpus :
           (c # d /\ Core(ev'[c]) # Core(ev[c])) => Core(ev'[d]) = Core(ev[d])

C8_RaceNonFatal == []C8_Returned /\ [][C8_Step]_vars

\* An invocation that made all six reads, which takes a change of the maps
\* under it, and denied, while the other CPU's invocation returned too.
C8_Witness ==
    \E c, d \in Cpus :
        /\ c # d
        /\ ev[c].pc = "done" /\ ev[c].mod
        /\ Len(ev[c].lookups) = 6
        /\ Denies(c)
        /\ ev[d].pc = "done"

(***************************************************************************)
(* C10.  Deny-all beats allow-all at wildcard scope, and the re-read of    *)
(* ALLOWED[wildcard] in phase 2 is dead under a snapshot.  An invocation   *)
(* under which no map changed and which returns while both wildcard        *)
(* entries have all = true returns -1 with one alert, whatever the         *)
(* binary's own allow rule is.  An invocation returns through line 99 or   *)
(* 103 only if user space changed a wildcard entry after the invocation    *)
(* read it in phase 1 and before it read it again in phase 2.              *)
(***************************************************************************)
C10_Step ==
    \A c \in Cpus :
        ( /\ ev[c].pc \in LookupPcs
          /\ ev'[c].pc = "done"
          /\ ~ev'[c].mod
          /\ IsAll(Allowed[INODE_WILDCARD])
          /\ IsAll(Denied[INODE_WILDCARD]) ) =>
            /\ ev'[c].ret = -1
            /\ Len(ev'[c].alerts) = 1

C10_Reread ==
    \A c \in Cpus :
        (ev[c].pc = "done" /\ ev[c].retline \in {99, 103}) => ev[c].wmod

C10_DenyAllBeatsAllowAll == [][C10_Step]_vars /\ []C10_Reread

\* The race that brings the branch to life: the invocation returns 0 from
\* line 99.
C10_Witness ==
    \E c \in Cpus :
        /\ ev[c].pc = "done"
        /\ ev[c].retline = 99
        /\ ev[c].wmod
        /\ ev[c].ret = 0
====
